---------------------------- MODULE Spec2Model ----------------------------
(***************************************************************************)
(* Batched, resumable ingestion of per-building time series                *)
(* (src/pullResStockLoad.py): the manifest ledger, the worker pool, the    *)
(* completion loop of process_state_in_batches, and process termination.   *)
(* Spec runs it repeatedly with failures and terminations over well-named  *)
(* objects; SpecFn runs it once, with no failure, over any file names, any *)
(* allowed ids and any batch_size.                                         *)
(*                                                                         *)
(* Strings that the code takes apart (paths, file names, building ids)     *)
(* are sequences of tokens; a data frame is a sequence of row records.     *)
(***************************************************************************)
EXTENDS Integers, Sequences, FiniteSets, TLC

(***************************************************************************)
(* Bounds of the model.                                                    *)
(***************************************************************************)
MaxPaths == 3
MaxBatchSize == 2
MaxWorkers == 2
MaxRuns == 3

(***************************************************************************)
(* Small helpers on sequences and sets.                                    *)
(***************************************************************************)
Range(s) == { s[k] : k \in 1..Len(s) }

Prefixes(s) == { SubSeq(s, 1, n) : n \in 0..Len(s) }

MinOf(S) == CHOOSE x \in S : \A y \in S : x <= y

\* The elements of a finite set of integers in ascending order.
RECURSIVE SortedSeq(_)
SortedSeq(S) ==
    IF S = {} THEN <<>>
    ELSE LET m == MinOf(S) IN <<m>> \o SortedSeq(S \ {m})

(***************************************************************************)
(* The remote object store: the objects under PREFIX + "state=<state>/".   *)
(***************************************************************************)
state == "CO"

PREFIX == <<"upgrade=0", "/">>

IdNames == <<"A", "B", "C", "D", "E">>

\* The path of the object that holds building k's time series.
ObjectPath(k) ==
    PREFIX \o <<"state=CO", "/", IdNames[k], "-", "0", ".", "parquet">>

\* The raw samples of a non-empty object: timestamps in minutes.
Samples(k) ==
    << [timestamp |-> 0,  v |-> 3 + k],
       [timestamp |-> 30, v |-> 4],
       [timestamp |-> 60, v |-> k] >>

\* File names a listing of the state's directory can hold besides the
\* "<id>-0.parquet" ones, in the order fs.glob returns them (sorted): an id
\* with a "-" in it, and a name without the "-0" part.
PoolNames ==
    << <<"A", "-", "0", ".", "parquet">>,
       <<"A", "-", "B", "-", "0", ".", "parquet">>,
       <<"A", ".", "parquet">>,
       <<"B", "-", "0", ".", "parquet">> >>

PoolPath(k) == PREFIX \o <<"state=CO", "/">> \o PoolNames[k]

\* The building ids the metadata index can hold for these names.
PoolIds == { <<"A">>, <<"B">>, <<"A", "-", "B">> }

(***************************************************************************)
(* str methods and path helpers, on token sequences.                       *)
(***************************************************************************)
removesuffix(s, suf) ==
    IF Len(suf) > 0 /\ Len(s) >= Len(suf)
       /\ SubSeq(s, Len(s) - Len(suf) + 1, Len(s)) = suf
    THEN SubSeq(s, 1, Len(s) - Len(suf))
    ELSE s

\* os.path.basename: what follows the last "/".
basename(path) ==
    LET slashes == { k \in 1..Len(path) : path[k] = "/" }
    IN  IF slashes = {} THEN path
        ELSE SubSeq(path, (CHOOSE k \in slashes : \A j \in slashes : j <= k) + 1,
                    Len(path))

\* pathlib's Path(p).stem: the final component without its last suffix.
stem(path) ==
    LET name == basename(path)
        dots == { k \in 2..(Len(name) - 1) : name[k] = "." }
    IN  IF dots = {} THEN name
        ELSE SubSeq(name, 1, (CHOOSE k \in dots : \A j \in dots : j <= k) - 1)

\* s.split("-")[0]
split_first(s) ==
    LET dashes == { k \in 1..Len(s) : s[k] = "-" }
    IN  IF dashes = {} THEN s ELSE SubSeq(s, 1, MinOf(dashes) - 1)

extract_building_id(path) ==
    removesuffix(removesuffix(basename(path), <<"-", "0", ".", "parquet">>),
                 <<".", "parquet">>)

\* filter_allowed that keeps every path, the allowed ids being tested only
\* when a batch is read.
filter_allowed_keeps_all(file_paths, allowed_ids) == file_paths

\* filter_allowed that also drops the names without the "-0.parquet" suffix.
filter_allowed_strict(file_paths, allowed_ids) ==
    SelectSeq(file_paths,
              LAMBDA p : /\ split_first(stem(p)) \in allowed_ids
                         /\ removesuffix(basename(p), <<"-", "0", ".", "parquet">>) # basename(p))

filter_allowed(file_paths, allowed_ids) ==
    SelectSeq(file_paths, LAMBDA p : split_first(stem(p)) \in allowed_ids)

\* islice(it, batch_size) raises ValueError for a negative batch_size.
batched_raises(n) == n < 0

\* batched that yields full batches only.
RECURSIVE batched_drops_tail(_, _)
batched_drops_tail(iterable, n) ==
    IF n <= 0 \/ Len(iterable) < n THEN <<>>
    ELSE <<SubSeq(iterable, 1, n)>> \o batched_drops_tail(SubSeq(iterable, n + 1, Len(iterable)), n)

\* list(batched(iterable, batch_size)): islice takes batch_size items until
\* a slice comes back empty (at once when batch_size is 0).
RECURSIVE batched(_, _)
batched(iterable, n) ==
    IF n <= 0 \/ Len(iterable) = 0 THEN <<>>
    ELSE IF Len(iterable) <= n THEN <<iterable>>
    ELSE <<SubSeq(iterable, 1, n)>> \o batched(SubSeq(iterable, n + 1, Len(iterable)), n)

(***************************************************************************)
(* Data frames.                                                            *)
(***************************************************************************)
Floor(ts) == ts - (ts % 60)

\* The mean (of whole numbers) where hourly_aggregate takes the sum.
RECURSIVE MeanAcc(_, _, _, _, _)
MeanAcc(df, id, hour, total, count) ==
    IF df = <<>> THEN (IF count = 0 THEN 0 ELSE total \div count)
    ELSE IF df[1].building_id = id /\ df[1].timestamp = hour
         THEN MeanAcc(Tail(df), id, hour, total + df[1].v, count + 1)
         ELSE MeanAcc(Tail(df), id, hour, total, count)

MeanWhere(df, id, hour) == MeanAcc(df, id, hour, 0, 0)

\* [numeric_cols].sum() of one (building_id, timestamp) group.
RECURSIVE SumWhere(_, _, _)
SumWhere(df, id, hour) ==
    IF df = <<>> THEN 0
    ELSE (IF df[1].building_id = id /\ df[1].timestamp = hour THEN df[1].v ELSE 0)
         + SumWhere(Tail(df), id, hour)

\* The rows of one building of a floored frame, one per hour, hours ascending.
GroupRows(df, id) ==
    LET hours == SortedSeq({ df[k].timestamp : k \in { j \in 1..Len(df) : df[j].building_id = id } })
    IN  [ k \in 1..Len(hours) |->
            [building_id |-> id, timestamp |-> hours[k], v |-> SumWhere(df, id, hours[k])] ]

\* The building ids of a frame in order of first appearance.
RECURSIVE IdsOf(_, _)
IdsOf(df, seen) ==
    IF df = <<>> THEN <<>>
    ELSE IF df[1].building_id \in seen THEN IdsOf(Tail(df), seen)
    ELSE <<df[1].building_id>> \o IdsOf(Tail(df), seen \cup {df[1].building_id})

RECURSIVE ConcatGroups(_, _)
ConcatGroups(df, ids) ==
    IF ids = <<>> THEN <<>>
    ELSE GroupRows(df, ids[1]) \o ConcatGroups(df, Tail(ids))

\* hourly_aggregate: floor the timestamps to the hour, then one summed row
\* per (building_id, timestamp) group.
hourly_aggregate(df) ==
    LET floored == [ k \in 1..Len(df) |->
                       [df[k] EXCEPT !.timestamp = Floor(df[k].timestamp)] ]
    IN  ConcatGroups(floored, IdsOf(floored, {}))

\* The rows of the object at path, tagged with its building id.
Tagged(path, objects) ==
    [ k \in 1..Len(objects[path]) |->
        [building_id |-> extract_building_id(path),
         timestamp   |-> objects[path][k].timestamp,
         v           |-> objects[path][k].v] ]

RECURSIVE ConcatTagged(_, _)
ConcatTagged(paths, objects) ==
    IF paths = <<>> THEN <<>>
    ELSE Tagged(paths[1], objects) \o ConcatTagged(Tail(paths), objects)

\* read_batch that concatenates the frames first and aggregates the batch.
read_batch_aggregates_batch(batch_paths, objects) ==
    hourly_aggregate(ConcatTagged(batch_paths, objects))

\* read_batch: every path of the batch is read, tagged with its building
\* id and aggregated; the frames are concatenated in path order.
RECURSIVE read_batch(_, _)
read_batch(batch_paths, objects) ==
    IF batch_paths = <<>> THEN <<>>
    ELSE LET path == batch_paths[1]
             df == Tagged(path, objects)
         IN  hourly_aggregate(df) \o read_batch(Tail(batch_paths), objects)

(***************************************************************************)
(* Output files and manifest entries.                                      *)
(***************************************************************************)
DigitChars == <<"0", "1", "2", "3", "4", "5", "6", "7", "8", "9">>

\* str(k) of a non-negative integer: its decimal digits.
RECURSIVE Str(_)
Str(k) ==
    IF k < 10 THEN <<DigitChars[k + 1]>>
    ELSE Str(k \div 10) \o <<DigitChars[(k % 10) + 1]>>

\* int(s) of a string of decimal digits.
RECURSIVE IntOf(_)
IntOf(s) ==
    LET d(c) == (CHOOSE n \in 1..10 : DigitChars[n] = c) - 1
    IN  IF Len(s) = 1 THEN d(s[1])
        ELSE 10 * IntOf(SubSeq(s, 1, Len(s) - 1)) + d(s[Len(s)])

\* f"{i}": the digits with no padding.
Pad3_NoPadding(i) == Str(i)

\* f"{i:03}": zero-padded to at least three digits.
Pad3(i) ==
    LET digits == Str(i)
    IN  IF Len(digits) >= 3 THEN digits
        ELSE [ k \in 1..(3 - Len(digits)) |-> "0" ] \o digits

\* output_dir / f"{state}_batch_{i:03}.parquet"
OutputFile(i) == <<"out", "/", state, "_batch_">> \o Pad3(i) \o <<".", "parquet">>

EmptyEntry == [ k \in {} |-> <<>> ]

\* The entry process_batch returns for a non-empty batch.
ManifestEntry(batch_paths, output_file) ==
    [ path         |-> output_file,
      building_ids |-> [ k \in 1..Len(batch_paths) |-> extract_building_id(batch_paths[k]) ],
      state        |-> state ]

(***************************************************************************)
(* The manifest file: a JSON object, modelled as the list of its           *)
(* (key, value) members and whether the text is complete (parsable).       *)
(***************************************************************************)
EmptyLedger == [ i \in {} |-> EmptyEntry ]

NoFile == [exists |-> FALSE, complete |-> FALSE, items |-> <<>>]

\* The digit strings in the order sorted() gives strings.
StrLess(a, b) ==
    LET d(c) == CHOOSE n \in 1..10 : DigitChars[n] = c
    IN  \E k \in 1..(Len(a) + 1) :
           /\ k <= Len(b)
           /\ \A m \in 1..(k - 1) : a[m] = b[m]
           /\ k <= Len(a) => d(a[k]) < d(b[k])

RECURSIVE StrSortedSeq(_)
StrSortedSeq(S) ==
    IF S = {} THEN <<>>
    ELSE LET m == CHOOSE x \in S : \A y \in S \ {x} : StrLess(Str(x), Str(y))
         IN  <<m>> \o StrSortedSeq(S \ {m})

\* json.dump(..., sort_keys=True) of the str keys: sorted as strings.
Serialize_StringOrder(ledger) ==
    LET keys == StrSortedSeq(DOMAIN ledger)
    IN  [ n \in 1..Len(keys) |-> [k |-> Str(keys[n]), v |-> ledger[keys[n]]] ]

\* json.dump({str(k): v for k, v in sorted(manifest.items())})
Serialize(ledger) ==
    LET keys == SortedSeq(DOMAIN ledger)
    IN  [ n \in 1..Len(keys) |-> [k |-> Str(keys[n]), v |-> ledger[keys[n]]] ]

\* {int(k): v for k, v in json.load(f).items()}
Parse(items) ==
    LET keys == { IntOf(items[n].k) : n \in 1..Len(items) }
    IN  [ i \in keys |->
            LET last == CHOOSE n \in 1..Len(items) :
                          /\ IntOf(items[n].k) = i
                          /\ \A m \in 1..Len(items) : IntOf(items[m].k) = i => m <= n
            IN  items[last].v ]

\* load_manifest raises (json.JSONDecodeError) on a file that exists and
\* does not hold a complete JSON text.
LoadRaises(file) == file.exists /\ ~file.complete

\* load_manifest that forgets what the file holds.
load_manifest_forgets(file) == EmptyLedger

load_manifest(file) ==
    IF file.exists THEN Parse(file.items) ELSE EmptyLedger

\* The file after save_manifest's open(manifest_path, "w").
Truncated == [exists |-> TRUE, complete |-> FALSE, items |-> <<>>]

\* The file after save_manifest returned.
Saved(ledger) == [exists |-> TRUE, complete |-> TRUE, items |-> Serialize(ledger)]

\* The file states an interrupted json.dump can leave behind.
PartialSaves(ledger) ==
    { [exists |-> TRUE, complete |-> FALSE, items |-> pre] : pre \in Prefixes(Serialize(ledger)) }

(***************************************************************************)
(* State.                                                                  *)
(***************************************************************************)
VARIABLES
    \* the environment of the runs
    listing,            \* fs.glob(PREFIX + "state=<state>/*.parquet")
    meta_ids,           \* the ids is_electric_only yields when it succeeds
    objects,            \* path -> the raw rows of the remote object
    batch_size,
    max_workers,
    \* the output directory
    manifest_file,      \* <state>_manifest.json
    files,              \* output file path -> [complete, rows]
    \* the process of the current run
    pc,                 \* where process_state_in_batches is
    manifest,           \* the in-memory ledger
    batches,
    output_paths,
    futures,            \* submitted batch index -> state of its future
    next_i,             \* the index the submit loop is at
    cur,                \* the index whose entry save_manifest is writing
    handled,            \* the futures as_completed has yielded and the loop has handled
    \* history
    run,                \* runs started so far
    loaded,             \* the ledger load_manifest returned in this run
    start_files,        \* the output files when this run started
    persisted,          \* the (index, entry) pairs a completed save_manifest has written
    clean,              \* no failure and no termination so far
    run_clean,          \* no failure in the current run
    prev_outcome,       \* how the run before the current one ended
    start_file,         \* the manifest file when this run started
    save_failed         \* the indices whose save_manifest raised in this run

env_vars  == <<listing, meta_ids, objects, batch_size, max_workers>>
disk_vars == <<manifest_file, files>>
proc_vars == <<pc, manifest, batches, output_paths, futures, next_i, cur, handled>>
hist_vars == <<run, loaded, start_files, persisted, clean, run_clean, prev_outcome, start_file,
               save_failed>>
vars == <<env_vars, disk_vars, proc_vars, hist_vars>>

NoFutures == [ i \in {} |-> "queued" ]

Running == { "loaded", "submit", "collect", "saving" }

Ended == { "stopped", "returned", "raised", "load_raised", "crashed" }

ListedIds == { <<IdNames[k]>> : k \in 1..MaxPaths }

Init ==
    /\ listing = [ k \in 1..MaxPaths |-> ObjectPath(k) ]
    /\ meta_ids \in SUBSET ListedIds
    /\ \E empties \in SUBSET (1..MaxPaths) :
         objects = [ p \in { ObjectPath(k) : k \in 1..MaxPaths } |->
                       LET k == CHOOSE j \in 1..MaxPaths : ObjectPath(j) = p
                       IN  IF k \in empties THEN <<>> ELSE Samples(k) ]
    /\ batch_size \in 1..MaxBatchSize
    /\ max_workers = MaxWorkers
    /\ manifest_file = NoFile
    /\ files = [ f \in {} |-> [complete |-> FALSE, rows |-> <<>>] ]
    /\ pc = "stopped"
    /\ manifest = EmptyLedger
    /\ batches = <<>>
    /\ output_paths = <<>>
    /\ futures = NoFutures
    /\ next_i = 0
    /\ cur = 0
    /\ handled = {}
    /\ run = 0
    /\ loaded = EmptyLedger
    /\ start_files = files
    /\ persisted = {}
    /\ clean = TRUE
    /\ run_clean = TRUE
    /\ prev_outcome = "stopped"
    /\ start_file = NoFile
    /\ save_failed = {}

\* The memory of a process that has not reached the submit loop.
FreshMemory ==
    /\ batches' = <<>>
    /\ output_paths' = <<>>
    /\ futures' = NoFutures
    /\ next_i' = 0
    /\ cur' = 0
    /\ handled' = {}

(***************************************************************************)
(* process_state_in_batches, up to the worker pool.                        *)
(***************************************************************************)
\* A new process calls process_state_in_batches; load_manifest returns.
StartRun ==
    /\ pc \in Ended
    /\ run < MaxRuns
    /\ ~LoadRaises(manifest_file)
    /\ pc' = "loaded"
    /\ manifest' = load_manifest(manifest_file)
    /\ loaded' = load_manifest(manifest_file)
    /\ FreshMemory
    /\ run' = run + 1
    /\ run_clean' = TRUE
    /\ prev_outcome' = pc
    /\ start_files' = files
    /\ start_file' = manifest_file
    /\ save_failed' = {}
    /\ UNCHANGED <<env_vars, disk_vars, persisted, clean>>

\* A new process calls process_state_in_batches; load_manifest raises.
StartRunLoadRaises ==
    /\ pc \in Ended
    /\ run < MaxRuns
    /\ LoadRaises(manifest_file)
    /\ pc' = "load_raised"
    /\ manifest' = EmptyLedger
    /\ loaded' = EmptyLedger
    /\ FreshMemory
    /\ run' = run + 1
    /\ run_clean' = TRUE
    /\ prev_outcome' = pc
    /\ start_files' = files
    /\ start_file' = manifest_file
    /\ save_failed' = {}
    /\ UNCHANGED <<env_vars, disk_vars, persisted, clean>>

\* is_electric_only returns; the listing is filtered and partitioned and
\* output_paths starts as the paths of the loaded entries.
Prepare ==
    /\ pc = "loaded"
    /\ ~batched_raises(batch_size)
    /\ LET file_paths == filter_allowed(listing, meta_ids)
           keys == SortedSeq(DOMAIN manifest)
       IN  /\ batches' = batched(file_paths, batch_size)
           /\ output_paths' = [ n \in 1..Len(keys) |-> manifest[keys[n]].path ]
    /\ pc' = "submit"
    /\ next_i' = 0
    /\ UNCHANGED <<env_vars, disk_vars, manifest, futures, cur, handled, hist_vars>>

\* list(batched(file_paths, batch_size)) raises: process_state_in_batches
\* raises before the executor exists.
PrepareBatchedRaises ==
    /\ pc = "loaded"
    /\ batched_raises(batch_size)
    /\ pc' = "raised"
    /\ manifest' = EmptyLedger
    /\ FreshMemory
    /\ clean' = FALSE
    /\ run_clean' = FALSE
    /\ UNCHANGED <<env_vars, disk_vars, run, loaded, start_files, persisted, prev_outcome, start_file,
                   save_failed>>

\* A process_state_in_batches that fetches the allowed ids only after the
\* batches are submitted, and raises there.
PrepareRaises_AfterSubmit ==
    /\ pc = "collect"
    /\ pc' = "raised"
    /\ clean' = FALSE
    /\ run_clean' = FALSE
    /\ UNCHANGED <<env_vars, disk_vars, manifest, batches, output_paths, futures, next_i, cur, handled,
                   run, loaded, start_files, persisted, prev_outcome, start_file,
                   save_failed>>

\* is_electric_only raises (fetch_state_metadata_df's RuntimeError).
PrepareRaises ==
    /\ pc = "loaded"
    /\ pc' = "raised"
    /\ manifest' = EmptyLedger
    /\ FreshMemory
    /\ clean' = FALSE
    /\ run_clean' = FALSE
    /\ UNCHANGED <<env_vars, disk_vars, run, loaded, start_files, persisted, prev_outcome, start_file,
                   save_failed>>

\* executor.submit(process_batch, batch, ...): a future for batch i.
SubmitTask(i) == (i :> "queued") @@ futures

\* Submit without the "if i in manifest: continue" test.
Submit_NoSkip ==
    /\ pc = "submit"
    /\ next_i < Len(batches)
    /\ futures' = SubmitTask(next_i)
    /\ next_i' = next_i + 1
    /\ UNCHANGED <<env_vars, disk_vars, pc, manifest, batches, output_paths, cur, handled, hist_vars>>

\* One iteration of the submit loop over enumerate(batches).
Submit ==
    /\ pc = "submit"
    /\ next_i < Len(batches)
    /\ futures' = IF next_i \in DOMAIN manifest THEN futures ELSE SubmitTask(next_i)
    /\ next_i' = next_i + 1
    /\ UNCHANGED <<env_vars, disk_vars, pc, manifest, batches, output_paths, cur, handled, hist_vars>>

\* The submit loop is over; as_completed starts.
SubmitDone ==
    /\ pc = "submit"
    /\ next_i = Len(batches)
    /\ pc' = "collect"
    /\ UNCHANGED <<env_vars, disk_vars, manifest, batches, output_paths, futures, next_i, cur, handled, hist_vars>>

(***************************************************************************)
(* The worker pool: process_batch on the threads of the executor.          *)
(***************************************************************************)
Alive == pc \in { "submit", "collect", "saving" }

InFlight == { i \in DOMAIN futures : futures[i] \in { "reading", "writing" } }

Queued == { i \in DOMAIN futures : futures[i] = "queued" }

\* A pool that runs one work item at a time, whatever max_workers is.
WorkerStart_OneThread(i) ==
    /\ Alive
    /\ i \in Queued
    /\ i = MinOf(Queued)
    /\ InFlight = {}
    /\ futures' = [futures EXCEPT ![i] = "reading"]
    /\ UNCHANGED <<env_vars, disk_vars, pc, manifest, batches, output_paths, next_i, cur, handled, hist_vars>>

\* A free thread takes the oldest queued work item.
WorkerStart(i) ==
    /\ Alive
    /\ i \in Queued
    /\ i = MinOf(Queued)
    /\ Cardinality(InFlight) < max_workers
    /\ futures' = [futures EXCEPT ![i] = "reading"]
    /\ UNCHANGED <<env_vars, disk_vars, pc, manifest, batches, output_paths, next_i, cur, handled, hist_vars>>

\* read_batch returns: an empty frame makes process_batch return {};
\* otherwise to_parquet opens the output file.
WorkerRead(i) ==
    /\ Alive
    /\ i \in DOMAIN futures
    /\ futures[i] = "reading"
    /\ LET df == read_batch(batches[i + 1], objects)
       IN  IF df = <<>>
           THEN /\ futures' = [futures EXCEPT ![i] = "empty"]
                /\ files' = files
           ELSE /\ futures' = [futures EXCEPT ![i] = "writing"]
                /\ files' = (OutputFile(i) :> [complete |-> FALSE, rows |-> <<>>]) @@ files
    /\ UNCHANGED <<env_vars, manifest_file, pc, manifest, batches, output_paths, next_i, cur, handled, hist_vars>>

\* pd.read_parquet raises inside read_batch.
WorkerReadRaises(i) ==
    /\ Alive
    /\ i \in DOMAIN futures
    /\ futures[i] = "reading"
    /\ futures' = [futures EXCEPT ![i] = "raised"]
    /\ clean' = FALSE
    /\ run_clean' = FALSE
    /\ UNCHANGED <<env_vars, disk_vars, pc, manifest, batches, output_paths, next_i, cur, handled,
                   run, loaded, start_files, persisted, prev_outcome, start_file,
                   save_failed>>

\* process_batch that returns the entry before to_parquet has finished.
WorkerWrite_EntryFirst(i) ==
    /\ Alive
    /\ i \in DOMAIN futures
    /\ futures[i] = "writing"
    /\ futures' = [futures EXCEPT ![i] = "entry"]
    /\ UNCHANGED <<env_vars, disk_vars, pc, manifest, batches, output_paths, next_i, cur, handled, hist_vars>>

\* process_batch that puts its entry in the ledger itself.
WorkerWrite_RecordsItself(i) ==
    /\ Alive
    /\ i \in DOMAIN futures
    /\ futures[i] = "writing"
    /\ futures' = [futures EXCEPT ![i] = "entry"]
    /\ files' = [files EXCEPT ![OutputFile(i)] =
                    [complete |-> TRUE, rows |-> read_batch(batches[i + 1], objects)]]
    /\ manifest' = (i :> ManifestEntry(batches[i + 1], OutputFile(i))) @@ manifest
    /\ UNCHANGED <<env_vars, manifest_file, pc, batches, output_paths, next_i, cur, handled, hist_vars>>

\* to_parquet returns; process_batch returns the entry.
WorkerWrite(i) ==
    /\ Alive
    /\ i \in DOMAIN futures
    /\ futures[i] = "writing"
    /\ futures' = [futures EXCEPT ![i] = "entry"]
    /\ files' = [files EXCEPT ![OutputFile(i)] =
                    [complete |-> TRUE, rows |-> read_batch(batches[i + 1], objects)]]
    /\ UNCHANGED <<env_vars, manifest_file, pc, manifest, batches, output_paths, next_i, cur, handled, hist_vars>>

\* to_parquet raises part way through the file.
WorkerWriteRaises(i) ==
    /\ Alive
    /\ i \in DOMAIN futures
    /\ futures[i] = "writing"
    /\ futures' = [futures EXCEPT ![i] = "raised"]
    /\ clean' = FALSE
    /\ run_clean' = FALSE
    /\ UNCHANGED <<env_vars, disk_vars, pc, manifest, batches, output_paths, next_i, cur, handled,
                   run, loaded, start_files, persisted, prev_outcome, start_file,
                   save_failed>>

(***************************************************************************)
(* The completion loop: for future in as_completed(futures).               *)
(***************************************************************************)
\* manifest[i] = entry
Record(ledger, i, entry) == (i :> entry) @@ ledger

\* A completion loop that records the batch of a future that raised.
HandleRaised_Records(i) ==
    /\ pc = "collect"
    /\ i \in DOMAIN futures \ handled
    /\ futures[i] = "raised"
    /\ manifest' = Record(manifest, i, ManifestEntry(batches[i + 1], OutputFile(i)))
    /\ output_paths' = Append(output_paths, OutputFile(i))
    /\ handled' = handled \cup {i}
    /\ UNCHANGED <<env_vars, disk_vars, pc, batches, futures, next_i, cur, hist_vars>>

\* future.result() raises; the except clause prints.
HandleRaised(i) ==
    /\ pc = "collect"
    /\ i \in DOMAIN futures \ handled
    /\ futures[i] = "raised"
    /\ handled' = handled \cup {i}
    /\ UNCHANGED <<env_vars, disk_vars, pc, manifest, batches, output_paths, futures, next_i, cur, hist_vars>>

\* future.result() is {}: nothing is recorded.
HandleEmpty(i) ==
    /\ pc = "collect"
    /\ i \in DOMAIN futures \ handled
    /\ futures[i] = "empty"
    /\ handled' = handled \cup {i}
    /\ UNCHANGED <<env_vars, disk_vars, pc, manifest, batches, output_paths, futures, next_i, cur, hist_vars>>

\* future.result() is an entry: it is put in the ledger, the output path is
\* appended and save_manifest opens the manifest file for writing.
HandleEntry(i) ==
    /\ pc = "collect"
    /\ i \in DOMAIN futures \ handled
    /\ futures[i] = "entry"
    /\ manifest' = Record(manifest, i, ManifestEntry(batches[i + 1], OutputFile(i)))
    /\ output_paths' = Append(output_paths, OutputFile(i))
    /\ manifest_file' = Truncated
    /\ cur' = i
    /\ pc' = "saving"
    /\ UNCHANGED <<env_vars, files, batches, futures, next_i, handled, hist_vars>>

\* A completion loop that may be handed the same future again.
SaveDone_LeavesUnhandled ==
    /\ pc = "saving"
    /\ manifest_file' = Saved(manifest)
    /\ handled' = handled
    /\ persisted' = persisted \cup { <<i, manifest[i]>> : i \in DOMAIN manifest }
    /\ pc' = "collect"
    /\ UNCHANGED <<env_vars, files, manifest, batches, output_paths, futures, next_i, cur,
                   run, loaded, start_files, clean, run_clean, prev_outcome, start_file,
                   save_failed>>

\* json.dump writes the ledger and the file is closed.
SaveDone ==
    /\ pc = "saving"
    /\ manifest_file' = Saved(manifest)
    /\ handled' = handled \cup {cur}
    /\ persisted' = persisted \cup { <<i, manifest[i]>> : i \in DOMAIN manifest }
    /\ pc' = "collect"
    /\ UNCHANGED <<env_vars, files, manifest, batches, output_paths, futures, next_i, cur,
                   run, loaded, start_files, clean, run_clean, prev_outcome, start_file,
                   save_failed>>

\* json.dump raises (OSError) part way through; the except clause prints.
SaveRaises ==
    /\ pc = "saving"
    /\ manifest_file' \in PartialSaves(manifest)
    /\ handled' = handled \cup {cur}
    /\ save_failed' = save_failed \cup {cur}
    /\ clean' = FALSE
    /\ run_clean' = FALSE
    /\ pc' = "collect"
    /\ UNCHANGED <<env_vars, files, manifest, batches, output_paths, futures, next_i, cur,
                   run, loaded, start_files, persisted, prev_outcome, start_file>>

\* Every future has been handled: the executor shuts down and
\* process_state_in_batches returns output_paths.
Return ==
    /\ pc = "collect"
    /\ handled = DOMAIN futures
    /\ pc' = "returned"
    /\ UNCHANGED <<env_vars, disk_vars, manifest, batches, output_paths, futures, next_i, cur, handled,
                   hist_vars>>

(***************************************************************************)
(* The process is terminated.  Its memory is gone; a file being written    *)
(* keeps what had reached it.                                              *)
(***************************************************************************)
Crash ==
    /\ pc \in Running
    /\ pc' = "crashed"
    /\ manifest_file' \in (IF pc = "saving" THEN PartialSaves(manifest) ELSE {manifest_file})
    /\ manifest' = EmptyLedger
    /\ FreshMemory
    /\ clean' = FALSE
    /\ run_clean' = FALSE
    /\ UNCHANGED <<env_vars, files, run, loaded, start_files, persisted, prev_outcome, start_file,
                   save_failed>>

Next ==
    \/ StartRun
    \/ StartRunLoadRaises
    \/ Prepare
    \/ PrepareRaises
    \/ Submit
    \/ SubmitDone
    \/ \E i \in 0..(MaxPaths - 1) : WorkerStart(i)
    \/ \E i \in 0..(MaxPaths - 1) : WorkerRead(i)
    \/ \E i \in 0..(MaxPaths - 1) : WorkerReadRaises(i)
    \/ \E i \in 0..(MaxPaths - 1) : WorkerWrite(i)
    \/ \E i \in 0..(MaxPaths - 1) : WorkerWriteRaises(i)
    \/ \E i \in 0..(MaxPaths - 1) : HandleRaised(i)
    \/ \E i \in 0..(MaxPaths - 1) : HandleEmpty(i)
    \/ \E i \in 0..(MaxPaths - 1) : HandleEntry(i)
    \/ SaveDone
    \/ SaveRaises
    \/ Return
    \/ Crash

Spec == Init /\ [][Next]_vars

(***************************************************************************)
(* One run of process_state_in_batches in which nothing fails and nothing  *)
(* is terminated, from an empty output directory, over any listing of the  *)
(* pool's file names, any metadata index and any batch_size argument.      *)
(***************************************************************************)
InitFn ==
    /\ \E chosen \in SUBSET (1..Len(PoolNames)) :
         /\ Cardinality(chosen) <= MaxPaths
         /\ listing = [ n \in 1..Cardinality(chosen) |-> PoolPath(SortedSeq(chosen)[n]) ]
    /\ meta_ids \in SUBSET PoolIds
    /\ \E empties \in SUBSET {Len(PoolNames)} :
         objects = [ p \in { PoolPath(k) : k \in 1..Len(PoolNames) } |->
                       LET k == CHOOSE j \in 1..Len(PoolNames) : PoolPath(j) = p
                       IN  IF k \in empties THEN <<>> ELSE Samples(k - 1) ]
    /\ batch_size \in (0 - 1)..(MaxPaths + 1)
    /\ max_workers = MaxWorkers
    /\ manifest_file = NoFile
    /\ files = [ f \in {} |-> [complete |-> FALSE, rows |-> <<>>] ]
    /\ pc = "stopped"
    /\ manifest = EmptyLedger
    /\ batches = <<>>
    /\ output_paths = <<>>
    /\ futures = NoFutures
    /\ next_i = 0
    /\ cur = 0
    /\ handled = {}
    /\ run = MaxRuns - 1
    /\ loaded = EmptyLedger
    /\ start_files = files
    /\ persisted = {}
    /\ clean = TRUE
    /\ run_clean = TRUE
    /\ prev_outcome = "stopped"
    /\ start_file = NoFile
    /\ save_failed = {}

NextFn ==
    \/ StartRun
    \/ Prepare
    \/ PrepareBatchedRaises
    \/ Submit
    \/ SubmitDone
    \/ \E i \in 0..(MaxPaths - 1) : WorkerStart(i)
    \/ \E i \in 0..(MaxPaths - 1) : WorkerRead(i)
    \/ \E i \in 0..(MaxPaths - 1) : WorkerWrite(i)
    \/ \E i \in 0..(MaxPaths - 1) : HandleEmpty(i)
    \/ \E i \in 0..(MaxPaths - 1) : HandleEntry(i)
    \/ SaveDone
    \/ Return

SpecFn == InitFn /\ [][NextFn]_vars

(***************************************************************************)
(* Runs in which nothing fails, with a metadata index that changes between *)
(* the runs: is_electric_only fetches it anew in every run.                *)
(***************************************************************************)
MetadataChanges ==
    /\ pc \in Ended
    /\ meta_ids' \in (SUBSET ListedIds) \ {meta_ids}
    /\ UNCHANGED <<listing, objects, batch_size, max_workers, disk_vars, proc_vars, hist_vars>>

NextDrift ==
    \/ MetadataChanges
    \/ StartRun
    \/ Prepare
    \/ Submit
    \/ SubmitDone
    \/ \E i \in 0..(MaxPaths - 1) : WorkerStart(i)
    \/ \E i \in 0..(MaxPaths - 1) : WorkerRead(i)
    \/ \E i \in 0..(MaxPaths - 1) : WorkerWrite(i)
    \/ \E i \in 0..(MaxPaths - 1) : HandleEmpty(i)
    \/ \E i \in 0..(MaxPaths - 1) : HandleEntry(i)
    \/ SaveDone
    \/ Return

SpecDrift == Init /\ [][NextDrift]_vars

(***************************************************************************)
(* Runs in which nothing fails and the fetch of batch 0 never returns:     *)
(* pd.read_parquet of its worker blocks for ever.  The other threads of    *)
(* the pool and the coordinating thread are scheduled fairly.              *)
(***************************************************************************)
NextStall ==
    \/ StartRun
    \/ Prepare
    \/ Submit
    \/ SubmitDone
    \/ \E i \in 0..(MaxPaths - 1) : WorkerStart(i)
    \/ \E i \in 1..(MaxPaths - 1) : WorkerRead(i)
    \/ \E i \in 0..(MaxPaths - 1) : WorkerWrite(i)
    \/ \E i \in 0..(MaxPaths - 1) : HandleEmpty(i)
    \/ \E i \in 0..(MaxPaths - 1) : HandleEntry(i)
    \/ SaveDone
    \/ Return

\* The states in which WorkerRead(i) and WorkerWrite(i) can step.
ReadReady(i) == Alive /\ i \in DOMAIN futures /\ futures[i] = "reading"

WriteReady(i) == Alive /\ i \in DOMAIN futures /\ futures[i] = "writing"

\* Weak fairness of every step of the coordinating thread and of every pool
\* thread but the stalled fetch.  For the two worker steps it is written
\* out, WF_vars(A) being []<>~ENABLED <<A>>_vars \/ []<><<A>>_vars, with
\* the enabling condition given as a state predicate.
FairStall ==
    /\ WF_vars(Submit)
    /\ WF_vars(SubmitDone)
    /\ WF_vars(SaveDone)
    /\ \A i \in 0..(MaxPaths - 1) : WF_vars(WorkerStart(i))
    /\ \A i \in 0..(MaxPaths - 1) : WF_vars(HandleEmpty(i))
    /\ \A i \in 0..(MaxPaths - 1) : WF_vars(HandleEntry(i))
    /\ \A i \in 1..(MaxPaths - 1) :
           []<>(~ReadReady(i)) \/ []<><<WorkerRead(i)>>_vars
    /\ \A i \in 0..(MaxPaths - 1) :
           []<>(~WriteReady(i)) \/ []<><<WorkerWrite(i)>>_vars

SpecStall == Init /\ [][NextStall]_vars /\ FairStall

(***************************************************************************)
(* What the claims speak of.                                               *)
(***************************************************************************)
\* The ledger a complete manifest file holds; nothing for a missing or
\* unparsable one.
PersistedLedger(file) ==
    IF file.exists /\ file.complete THEN Parse(file.items) ELSE EmptyLedger

PersistedPairs(file) ==
    { <<i, PersistedLedger(file)[i]>> : i \in DOMAIN PersistedLedger(file) }

\* The keys that stand in the manifest file's text, complete or not.
ItemKeys(file) == { IntOf(file.items[n].k) : n \in 1..Len(file.items) }

\* The batches of this environment and the result of a run over them that
\* nothing interrupts and in which nothing fails, from an empty directory.
ExpectedBatches == batched(filter_allowed(listing, meta_ids), batch_size)

ExpectedNonEmpty ==
    { i \in 0..(Len(ExpectedBatches) - 1) : read_batch(ExpectedBatches[i + 1], objects) # <<>> }

ExpectedManifest ==
    [ i \in ExpectedNonEmpty |-> ManifestEntry(ExpectedBatches[i + 1], OutputFile(i)) ]

ExpectedManifestFile ==
    IF ExpectedNonEmpty = {} THEN NoFile ELSE Saved(ExpectedManifest)

ExpectedFiles ==
    [ f \in { OutputFile(i) : i \in ExpectedNonEmpty } |->
        LET i == CHOOSE j \in ExpectedNonEmpty : OutputFile(j) = f
        IN  [complete |-> TRUE, rows |-> read_batch(ExpectedBatches[i + 1], objects)] ]

\* The batches of the current run whose worker returns the empty marker.
EmptyBatches ==
    { i \in 0..(Len(batches) - 1) : read_batch(batches[i + 1], objects) = <<>> }

PastSubmit == pc \in { "collect", "saving", "returned" }

SameFile(f, before, after) ==
    /\ (f \in DOMAIN before) = (f \in DOMAIN after)
    /\ f \in DOMAIN before => before[f] = after[f]

(***************************************************************************)
(* C1  Resume.  A run submits exactly the batch indices that are not keys  *)
(* of the manifest it loaded.  For an index of the loaded manifest no      *)
(* future exists, its output file is what it was when the run started, its *)
(* entry in the ledger is the loaded one, and every complete manifest file *)
(* the run writes carries that entry.                                      *)
(***************************************************************************)
C1_ResumeSkipsDone ==
    pc \in { "submit", "collect", "saving", "returned" } =>
        /\ DOMAIN futures = { i \in 0..(next_i - 1) : i \notin DOMAIN loaded }
        /\ PastSubmit => next_i = Len(batches)
        /\ \A i \in DOMAIN loaded :
             /\ i \in DOMAIN manifest /\ manifest[i] = loaded[i]
             /\ SameFile(OutputFile(i), start_files, files)
             /\ (manifest_file.exists /\ manifest_file.complete) =>
                    <<i, loaded[i]>> \in PersistedPairs(manifest_file)

\* A resumed run has returned: it skipped a loaded index and recorded another.
C1_Witness ==
    /\ pc = "returned"
    /\ DOMAIN loaded # {}
    /\ \E i \in DOMAIN futures : futures[i] = "entry" /\ i \in DOMAIN manifest

(***************************************************************************)
(* C2  Idempotence, as claimed: after two runs in a row with no failure,   *)
(* the second run has submitted no batch and the manifest file is the one  *)
(* the first run left.                                                     *)
(***************************************************************************)
C2_SecondRunSubmitsNothing ==
    (pc = "returned" /\ prev_outcome = "returned" /\ clean) =>
        /\ DOMAIN futures = {}
        /\ manifest_file = start_file

(***************************************************************************)
(* C2  Idempotence, amended: after two runs in a row with no failure, the  *)
(* manifest file is the one the first run left, and the second run has     *)
(* submitted exactly the batches whose result is the empty marker (they    *)
(* are never recorded): none only when no batch is empty.                  *)
(***************************************************************************)
C2_Idempotent ==
    (pc = "returned" /\ prev_outcome = "returned" /\ clean) =>
        /\ DOMAIN futures = EmptyBatches
        /\ manifest_file = start_file

\* A second clean run over recorded batches and an empty one.
C2_Witness ==
    /\ pc = "returned" /\ prev_outcome = "returned" /\ clean
    /\ DOMAIN manifest # {}
    /\ EmptyBatches # {}
    /\ handled = EmptyBatches

(***************************************************************************)
(* C3  Crash safety of resume.  The run that follows a terminated run      *)
(* starts normally and, when nothing fails in it, ends with the manifest   *)
(* and the output files of a run that was never interrupted.               *)
(***************************************************************************)
C3_CrashSafeResume ==
    prev_outcome = "crashed" =>
        /\ pc # "load_raised"
        /\ (pc = "returned" /\ run_clean) =>
              /\ manifest_file = ExpectedManifestFile
              /\ files = ExpectedFiles

(***************************************************************************)
(* C4  save_manifest is atomic.  After a termination the manifest file is  *)
(* missing or a complete ledger, never a part of one.                      *)
(***************************************************************************)
C4_AtomicSave ==
    pc = "crashed" => (manifest_file.exists => manifest_file.complete)

(***************************************************************************)
(* C5  load_manifest never raises: a missing file and an unparsable file   *)
(* both give the empty ledger.                                             *)
(***************************************************************************)
C5_LoadNeverRaises ==
    pc # "load_raised"

(***************************************************************************)
(* C6  The manifest grows monotonically.  Every (index, entry) pair that   *)
(* the manifest file holds is still in it, with the same entry, after      *)
(* every step.                                                             *)
(***************************************************************************)
C6_ManifestMonotonic ==
    [][PersistedPairs(manifest_file) \subseteq PersistedPairs(manifest_file')]_vars

(***************************************************************************)
(* C7  Write before record.  Every batch index that stands in the          *)
(* manifest file (complete or not) or in the ledger names an output file   *)
(* that exists and is fully written; so the inconsistency a termination    *)
(* leaves is an output file without entry, never an entry without file.    *)
(***************************************************************************)
C7_WriteBeforeRecord ==
    /\ \A n \in 1..Len(manifest_file.items) :
          LET f == manifest_file.items[n].v.path
          IN  /\ f = OutputFile(IntOf(manifest_file.items[n].k))
              /\ f \in DOMAIN files /\ files[f].complete /\ files[f].rows # <<>>
    /\ \A i \in DOMAIN manifest :
          /\ manifest[i].path = OutputFile(i)
          /\ OutputFile(i) \in DOMAIN files /\ files[OutputFile(i)].complete

\* A termination has left a recorded batch and an output file without entry.
C7_Witness ==
    /\ pc = "crashed"
    /\ manifest_file.complete /\ Len(manifest_file.items) > 0
    /\ \E f \in DOMAIN files :
          \A n \in 1..Len(manifest_file.items) : manifest_file.items[n].v.path # f

(***************************************************************************)
(* C8  Progress is never lost.  The manifest the next run loads holds      *)
(* every index that a finished completion handler has persisted.           *)
(***************************************************************************)
C8_ProgressKept ==
    pc \in { "loaded", "load_raised" } =>
        { pair[1] : pair \in persisted } \subseteq DOMAIN loaded

(***************************************************************************)
(* C9  Orphan retry.  When a termination has left an output file without   *)
(* manifest entry, the next run starts, submits that batch again and, when *)
(* nothing fails in it, ends with the complete file and with the batch in  *)
(* the manifest.                                                           *)
(***************************************************************************)
\* The batches that had an output file and no manifest entry when this run
\* started.
Orphans ==
    { i \in 0..(MaxPaths - 1) :
        OutputFile(i) \in DOMAIN start_files /\ i \notin DOMAIN PersistedLedger(start_file) }

\* C9: after a termination that left orphaned output files, the next run
\* starts, submits every orphaned batch and, with no failure, ends with its
\* complete file and its manifest entry.
C9_OrphanRetry ==
    (prev_outcome = "crashed" /\ Orphans # {}) =>
        /\ pc # "load_raised"
        /\ PastSubmit => Orphans \subseteq DOMAIN futures
        /\ (pc = "returned" /\ run_clean) =>
              \A i \in Orphans :
                 /\ i \in DOMAIN PersistedLedger(manifest_file)
                 /\ files[OutputFile(i)] = ExpectedFiles[OutputFile(i)]

(***************************************************************************)
(* C10  Per-batch failure tolerance.  The index of a batch whose worker    *)
(* raised or returned the empty marker is in neither the ledger nor the    *)
(* manifest file; once batches are submitted the run does not raise; at    *)
(* return every batch whose worker returned an entry is in the ledger and  *)
(* in the returned paths; and a run in which every batch failed returns    *)
(* the paths of the loaded entries and leaves the manifest file as it was. *)
(***************************************************************************)
Failed == { i \in DOMAIN futures : futures[i] \in { "raised", "empty" } }

C10_Absent ==
    \A i \in Failed : i \notin DOMAIN manifest /\ i \notin ItemKeys(manifest_file)

C10_AtReturn ==
    pc = "returned" =>
        /\ handled = DOMAIN futures
        /\ \A i \in DOMAIN futures \ Failed :
              /\ i \in DOMAIN manifest
              /\ manifest[i] = ManifestEntry(batches[i + 1], OutputFile(i))
              /\ OutputFile(i) \in Range(output_paths)
        /\ Failed = DOMAIN futures =>
              /\ manifest = loaded
              /\ manifest_file = start_file
              /\ Range(output_paths) = { loaded[i].path : i \in DOMAIN loaded }
              /\ Len(output_paths) = Cardinality(DOMAIN loaded)

C10_NoRaiseAfterSubmit ==
    Alive => pc' \in { "submit", "collect", "saving", "returned", "crashed" }

\* C10: a failed or empty batch is never recorded, the run does not raise
\* once batches are submitted, and at return the other batches are recorded.
C10_FailureTolerance ==
    [](C10_Absent /\ C10_AtReturn) /\ [][C10_NoRaiseAfterSubmit]_vars

\* A run has returned in which one worker raised and another batch was recorded.
C10_Witness ==
    /\ pc = "returned"
    /\ \E i \in DOMAIN futures : futures[i] = "raised"
    /\ \E j \in DOMAIN futures : futures[j] = "entry" /\ j \in DOMAIN PersistedLedger(manifest_file)

(***************************************************************************)
(* C11  Per-path error absorption.  A read error on one path of a batch    *)
(* is caught at that path: the worker that is reading a batch goes on to   *)
(* an entry or to the empty marker built from the other paths, and its     *)
(* future never ends with the exception.                                   *)
(***************************************************************************)
C11_PathErrorAbsorbed ==
    [][\A i \in DOMAIN futures :
          (futures[i] = "reading" /\ i \in DOMAIN futures') => futures'[i] # "raised"]_vars

(***************************************************************************)
(* C12  Fail-fast filter.  When fetching the allowed ids fails, the run    *)
(* raises from the point before the submit loop: no batch has been         *)
(* submitted, and the output files and the manifest file are what they     *)
(* were when the run started.                                              *)
(***************************************************************************)
C12_RaisesBeforeSubmit ==
    pc' = "raised" =>
        /\ pc = "loaded"
        /\ DOMAIN futures = {}
        /\ files' = files
        /\ manifest_file' = manifest_file

C12_Untouched ==
    pc = "raised" =>
        /\ DOMAIN futures = {}
        /\ files = start_files
        /\ manifest_file = start_file

\* C12: a failing fetch of the allowed ids raises before any batch is
\* submitted and leaves the output files and the manifest file untouched.
C12_FailFastFilter ==
    []C12_Untouched /\ [][C12_RaisesBeforeSubmit]_vars

\* The fetch fails in a run that found a manifest and output files.
C12_Witness ==
    /\ pc = "raised"
    /\ manifest_file.exists /\ manifest_file.complete
    /\ Len(manifest_file.items) > 0
    /\ DOMAIN files # {}

(***************************************************************************)
(* What the claims about the batch outputs speak of.                       *)
(***************************************************************************)
MaxLen == 5

\* Batch indices are looked at up to this many decimal digits.
MaxIndexDigits == 4

RECURSIVE Flatten(_)
Flatten(seqs) ==
    IF seqs = <<>> THEN <<>> ELSE seqs[1] \o Flatten(Tail(seqs))

AfterPartition == { "submit", "collect", "saving", "returned" }

\* parts is a split of paths into ceil(Len(paths) / n) contiguous slices,
\* all of n items but for a shorter, non-empty last one.
IsPartition(paths, n, parts) ==
    /\ Len(parts) * n >= Len(paths)
    /\ (Len(parts) - 1) * n < Len(paths)
    /\ \A i \in 1..Len(parts) :
          /\ Len(parts[i]) > 0
          /\ i < Len(parts) => Len(parts[i]) = n
    /\ Flatten(parts) = paths

(***************************************************************************)
(* C13  Partitioner.  For N paths and a batch_size > 0, batched returns    *)
(* ceil(N / batch_size) batches, none empty, all but the last of           *)
(* batch_size paths, whose concatenation in index order is the input: for  *)
(* the batches of every run, and for every sequence of up to MaxLen items  *)
(* and every size up to MaxLen + 1.                                        *)
(***************************************************************************)
C13_Partitioner ==
    /\ (pc \in AfterPartition /\ batch_size > 0) =>
          IsPartition(filter_allowed(listing, meta_ids), batch_size, batches)
    /\ \A N \in 0..MaxLen : \A n \in 1..(MaxLen + 1) :
          IsPartition([ k \in 1..N |-> k ], n, batched([ k \in 1..N |-> k ], n))

\* A run has partitioned three paths into a full batch and a shorter last one.
C13_Witness ==
    /\ pc = "returned"
    /\ batch_size = 2
    /\ Len(batches) = 2
    /\ Len(batches[1]) = 2 /\ Len(batches[2]) = 1

(***************************************************************************)
(* C14  Invalid batch size.  With a batch_size of zero or less the         *)
(* partitioning fails: the run never gets a list of batches, it raises     *)
(* before the submit loop.                                                 *)
(***************************************************************************)
C14_InvalidBatchSize ==
    batch_size <= 0 => pc \in { "stopped", "loaded", "raised" }

(***************************************************************************)
(* C15  Filter correctness.  For every allowed-id set, every listing and   *)
(* every batch size from 1 to the number of paths, the building id of      *)
(* every row of every output file, and every id in a manifest entry's      *)
(* building_ids, is one of the allowed ids.                                *)
(***************************************************************************)
C15_FilterCorrect ==
    batch_size \in 1..Len(listing) =>
        /\ \A f \in DOMAIN files : \A k \in 1..Len(files[f].rows) :
              files[f].rows[k].building_id \in meta_ids
        /\ \A i \in DOMAIN manifest : \A k \in 1..Len(manifest[i].building_ids) :
              manifest[i].building_ids[k] \in meta_ids

(***************************************************************************)
(* C16  Non-conforming path names, as claimed: a listed path whose file    *)
(* name does not end in "-0.parquet" is dropped before the partitioning,   *)
(* it is in no batch.                                                      *)
(***************************************************************************)
\* The file name of path follows the "<id>-0.parquet" convention.
Conforming(path) ==
    removesuffix(basename(path), <<"-", "0", ".", "parquet">>) # basename(path)

FallbackId(path) == removesuffix(basename(path), <<".", "parquet">>)

InBatch(p, i) == \E k \in 1..Len(batches[i]) : batches[i][k] = p

InputKeys(batch_paths) ==
    LET raw == ConcatTagged(batch_paths, objects)
    IN  { <<raw[k].building_id, Floor(raw[k].timestamp)>> : k \in 1..Len(raw) }

KeyOf(row) == <<row.building_id, row.timestamp>>

\* The batches of the current run whose output file is fully written.
Written ==
    { i \in 0..(Len(batches) - 1) :
        OutputFile(i) \in DOMAIN files /\ files[OutputFile(i)].complete }

(***************************************************************************)
(* C17  One row per key.  Every fully written batch output holds exactly   *)
(* one row for each (building id, hour) pair of the batch's input records  *)
(* and no row for another pair, also when two paths of the batch derive    *)
(* the same building id.                                                   *)
(***************************************************************************)
C17_OneRowPerKey ==
    \A i \in Written :
       LET rows == files[OutputFile(i)].rows
       IN  /\ { KeyOf(rows[k]) : k \in 1..Len(rows) } = InputKeys(batches[i + 1])
           /\ \A key \in InputKeys(batches[i + 1]) :
                 Cardinality({ k \in 1..Len(rows) : KeyOf(rows[k]) = key }) = 1

\* The records of raw that fall in the group key = (building id, hour).
GroupValues(raw, key) ==
    SelectSeq(raw, LAMBDA r : <<r.building_id, Floor(r.timestamp)>> = key)

RECURSIVE Total(_)
Total(rows) == IF rows = <<>> THEN 0 ELSE rows[1].v + Total(Tail(rows))

Policies == { "sum", "mean" }

RECURSIVE KeyCount(_)
KeyCount(paths) ==
    IF paths = <<>> THEN 0
    ELSE Cardinality(InputKeys(<<paths[1]>>)) + KeyCount(Tail(paths))

RECURSIVE RowsFrom(_)
RowsFrom(i) ==
    IF i >= MaxPaths THEN <<>>
    ELSE (IF OutputFile(i) \in DOMAIN files THEN files[OutputFile(i)].rows ELSE <<>>)
         \o RowsFrom(i + 1)

OutputRows == RowsFrom(0)

SameBag(x, y) ==
    /\ Len(x) = Len(y)
    /\ \A r \in Range(x) :
          Cardinality({ k \in 1..Len(x) : x[k] = r }) = Cardinality({ k \in 1..Len(y) : y[k] = r })

\* One hourly aggregation over the records of all listed objects whose
\* building id is an allowed id.
Reference ==
    hourly_aggregate(
        ConcatTagged(SelectSeq(listing, LAMBDA p : extract_building_id(p) \in meta_ids),
                     objects))

(***************************************************************************)
(* C19  Completeness.  After a run from an empty manifest in which nothing *)
(* fails, the rows of all batch output files together are the rows of one  *)
(* single-pass hourly aggregation over all listed objects of allowed       *)
(* building ids: none is missing and none is there twice.                  *)
(***************************************************************************)
C19_Complete ==
    (pc = "returned" /\ batch_size >= 1 /\ run_clean /\ DOMAIN loaded = {}
                     /\ DOMAIN start_files = {}) =>
        SameBag(OutputRows, Reference)

\* The rows the workers get for a list of batches, in batch order.
RECURSIVE ReadAll(_)
ReadAll(parts) ==
    IF parts = <<>> THEN <<>>
    ELSE read_batch(parts[1], objects) \o ReadAll(Tail(parts))

(***************************************************************************)
(* C20  Batch-size invariance.  For one listing and one allowed-id set,    *)
(* the rows that a run from an empty manifest with no failure has written  *)
(* are, as a collection, the rows a run with any other batch size between  *)
(* 1 and the number of paths gets: the same number of rows and the same    *)
(* values for every (building id, hour) pair.                              *)
(***************************************************************************)
C20_BatchSizeInvariant ==
    (pc = "returned" /\ batch_size \in 1..Len(listing) /\ run_clean /\ DOMAIN loaded = {}
                     /\ DOMAIN start_files = {}) =>
        \A b \in 1..Len(listing) :
           SameBag(OutputRows, ReadAll(batched(filter_allowed(listing, meta_ids), b)))

\* A run with batch size 1 has written several outputs that a larger batch
\* size would have put in one.
C20_Witness ==
    /\ pc = "returned"
    /\ batch_size = 1
    /\ Cardinality(Written) >= 2
    /\ Len(OutputRows) >= 4

\* The listing ["A-0.parquet", "B-0.parquet"], the allowed ids {"A"} and
\* batch_size 1.
Scenario ==
    /\ listing = << PoolPath(1), PoolPath(4) >>
    /\ meta_ids = { <<"A">> }
    /\ batch_size = 1

(***************************************************************************)
(* C21  Concrete scenario, as claimed: with the paths A-0.parquet and      *)
(* B-0.parquet, the allowed ids {A} and batch_size 1, the run forms two    *)
(* batches; batch 0 has rows only for A, batch 1 is empty and has no       *)
(* output file, and the final manifest has exactly one entry.              *)
(***************************************************************************)
C21_TwoBatches ==
    (Scenario /\ pc \in AfterPartition) =>
        /\ Len(batches) = 2
        /\ pc = "returned" =>
              /\ \A k \in 1..Len(files[OutputFile(0)].rows) :
                    files[OutputFile(0)].rows[k].building_id = <<"A">>
              /\ OutputFile(1) \notin DOMAIN files
              /\ Len(manifest_file.items) = 1

(***************************************************************************)
(* C21  Concrete scenario, amended: with the paths A-0.parquet and         *)
(* B-0.parquet, the allowed ids {A} and batch_size 1, the run forms one    *)
(* batch, index 0, of A-0.parquet alone (B-0.parquet is filtered out       *)
(* before the partitioning and is in no batch); batch 0 has rows only for  *)
(* A, its output file is the only one, and the final manifest has exactly  *)
(* one entry.                                                              *)
(***************************************************************************)
C21_OneBatch ==
    (Scenario /\ pc \in AfterPartition) =>
        /\ batches = << << PoolPath(1) >> >>
        /\ pc \in { "collect", "saving", "returned" } => DOMAIN futures = {0}
        /\ pc = "returned" =>
              /\ DOMAIN files = { OutputFile(0) }
              /\ files[OutputFile(0)].complete
              /\ Len(files[OutputFile(0)].rows) > 0
              /\ \A k \in 1..Len(files[OutputFile(0)].rows) :
                    files[OutputFile(0)].rows[k].building_id = <<"A">>
              /\ manifest_file.complete
              /\ Len(manifest_file.items) = 1
              /\ manifest_file.items[1].k = <<"0">>

\* The run of the scenario has returned.
C21_Witness ==
    Scenario /\ pc = "returned" /\ Len(output_paths) = 1

\* The building ids of the paths of batch i of the current run, in path order.
BatchIds(i) ==
    [ k \in 1..Len(batches[i + 1]) |-> extract_building_id(batches[i + 1][k]) ]

(***************************************************************************)
(* C22  Reproducible batch index.  In every run over the same objects with *)
(* the same batch_size, batch index i denotes the paths it denoted in the  *)
(* run that recorded it, whatever allowed-id set the run has fetched: a    *)
(* batch that is skipped on resume holds only paths that the recorded      *)
(* batch of that index held.                                               *)
(***************************************************************************)
C22_ReproducibleIndex ==
    pc \in AfterPartition =>
        \A i \in DOMAIN loaded :
           i < Len(batches) => BatchIds(i) = loaded[i].building_ids

Occurrences(seq, x) == Cardinality({ k \in 1..Len(seq) : seq[k] = x })

\* The output paths of the entries of the persisted manifest.
PersistedPaths ==
    { PersistedLedger(manifest_file)[i].path : i \in DOMAIN PersistedLedger(manifest_file) }

(***************************************************************************)
(* C23  Return value.  process_state_in_batches returns the output path of *)
(* every manifest entry that existed when the run started and of every     *)
(* batch recorded during the run, each exactly once, and at return the set *)
(* of returned paths is the set of output paths of the persisted manifest. *)
(***************************************************************************)
C23_ReturnValue ==
    pc = "returned" =>
        /\ \A i \in DOMAIN loaded : Occurrences(output_paths, loaded[i].path) = 1
        /\ \A i \in DOMAIN manifest \ DOMAIN loaded : Occurrences(output_paths, OutputFile(i)) = 1
        /\ Len(output_paths) = Cardinality(DOMAIN manifest)
        /\ Range(output_paths) = PersistedPaths

\* The batches of this run that hit a batch-local error: the worker raised
\* (reading or writing the output file) or persisting the manifest raised.
BatchLocalErrors ==
    { i \in DOMAIN futures : futures[i] = "raised" } \cup save_failed

(***************************************************************************)
(* C24  Batch-local errors leave the batch pending.  At the end of a run,  *)
(* a batch whose worker raised, whose output file could not be written or  *)
(* whose manifest save raised is in neither the in-memory ledger, nor the  *)
(* persisted manifest, nor the returned output paths.                      *)
(***************************************************************************)
C24_ErrorsLeavePending ==
    pc = "returned" =>
        \A i \in BatchLocalErrors :
           /\ i \notin DOMAIN manifest
           /\ i \notin DOMAIN PersistedLedger(manifest_file)
           /\ OutputFile(i) \notin Range(output_paths)

\* A thread of the pool has taken a step: the state of a future has changed.
WorkerStepped ==
    \E i \in DOMAIN futures \cap DOMAIN futures' : futures[i] # futures'[i]

Bookkeeping == <<manifest, manifest_file, output_paths>>

\* No step of a worker changes the ledger, the manifest file or the list of
\* output paths.
C25_WorkersLeaveBookkeeping ==
    WorkerStepped => UNCHANGED Bookkeeping

\* The bookkeeping changes in the coordinating thread only: in its
\* completion loop, when a run sets up, or when the process is terminated.
C25_CoordinatorOnly ==
    Bookkeeping' # Bookkeeping =>
        \/ pc \in { "collect", "saving" }
        \/ pc' \in { "loaded", "load_raised", "submit", "raised", "crashed" }

\* No update is lost: every entry a worker returned is in the ledger and
\* once in the returned paths.
C25_NoLostUpdate ==
    pc = "returned" =>
        \A i \in DOMAIN futures :
           futures[i] = "entry" =>
              /\ i \in DOMAIN manifest
              /\ Occurrences(output_paths, OutputFile(i)) = 1

(***************************************************************************)
(* C25  Single mutator.  Under every interleaving of the workers, the      *)
(* ledger, the manifest file and the list of output paths are changed by   *)
(* the coordinating thread only, never by a step of a worker, and no       *)
(* update is lost.                                                         *)
(***************************************************************************)
C25_SingleMutator ==
    /\ []C25_NoLostUpdate
    /\ [][C25_WorkersLeaveBookkeeping /\ C25_CoordinatorOnly]_vars

\* A worker is writing its output while the coordinator saves the manifest
\* and another worker is reading.
C25_Witness ==
    /\ pc = "saving"
    /\ \E i \in DOMAIN futures : futures[i] = "writing"
    /\ \E j \in DOMAIN futures : futures[j] = "reading"

\* At most max_workers batches are in flight.
C26_InFlightBound ==
    Cardinality(InFlight) <= max_workers

\* Batch i has been executed and, when it is not empty, recorded in the
\* persisted manifest.
Settled(i) ==
    \/ i \in DOMAIN futures /\ futures[i] = "empty" /\ i \in handled
    \/ i \in DOMAIN PersistedLedger(manifest_file)

(***************************************************************************)
(* C26  Stall isolation.  With two or more workers, at most max_workers    *)
(* batches are in flight at any time, and while the fetch of batch 0       *)
(* stalls for ever, every other submitted batch is eventually executed by  *)
(* the remaining workers and, when it is not empty, eventually recorded in *)
(* the persisted manifest.                                                 *)
(***************************************************************************)
C26_StallIsolation ==
    /\ []C26_InFlightBound
    /\ \A i \in 1..(MaxPaths - 1) : (i \in DOMAIN futures) ~> Settled(i)

\* The fetch of batch 0 is stalled and every other batch of the run has
\* been handled, one of them recorded.
C26_Witness ==
    /\ pc = "collect"
    /\ 0 \in DOMAIN futures /\ futures[0] = "reading"
    /\ handled = DOMAIN futures \ {0}
    /\ \E i \in handled : i \in DOMAIN PersistedLedger(manifest_file)
    /\ max_workers >= 2

RECURSIVE Pow10(_)
Pow10(k) == IF k = 0 THEN 1 ELSE 10 * Pow10(k - 1)

\* Indices on both sides of every change in the number of digits.
IndexSamples ==
    UNION { { Pow10(k) - 1, Pow10(k), Pow10(k) + 1 } : k \in 0..(MaxIndexDigits - 1) }

\* i written with three digits, for i below 1000.
ThreeDigits(i) ==
    << DigitChars[((i \div 100) % 10) + 1],
       DigitChars[((i \div 10) % 10) + 1],
       DigitChars[(i % 10) + 1] >>

\* Distinct batch indices have distinct output paths.
C27_DistinctPaths ==
    \A i, j \in IndexSamples : i # j => OutputFile(i) # OutputFile(j)

(***************************************************************************)
(* C27  Manifest entry content.  The persisted entry of batch i carries    *)
(* the state passed to the run, the building id of every path of batch i   *)
(* in path order, and the path out/<state>_batch_<i in three digits>       *)
(* .parquet; and distinct indices have distinct output paths.              *)
(***************************************************************************)
C27_EntryContent ==
    /\ C27_DistinctPaths
    /\ pc \in { "collect", "saving", "returned" } =>
          \A i \in DOMAIN PersistedLedger(manifest_file) :
             LET entry == PersistedLedger(manifest_file)[i]
             IN  /\ entry.state = state
                 /\ Len(entry.building_ids) = Len(batches[i + 1])
                 /\ \A k \in 1..Len(batches[i + 1]) :
                       entry.building_ids[k] = extract_building_id(batches[i + 1][k])
                 /\ entry.path =
                       <<"out", "/", state, "_batch_">> \o ThreeDigits(i) \o <<".", "parquet">>

\* A run has returned with two batches recorded, one of them of two paths.
C27_Witness ==
    /\ pc = "returned"
    /\ Cardinality(DOMAIN PersistedLedger(manifest_file)) >= 2
    /\ \E i \in DOMAIN PersistedLedger(manifest_file) :
          Len(PersistedLedger(manifest_file)[i].building_ids) >= 2

\* The batches of this run whose worker returned an entry.
Entries == { i \in DOMAIN futures : futures[i] = "entry" }

\* The ledger once every entry of the run is recorded.
FullLedger ==
    [ i \in DOMAIN loaded \cup Entries |->
        IF i \in Entries THEN ManifestEntry(batches[i + 1], OutputFile(i)) ELSE loaded[i] ]

\* The persisted ledger that the run leaves when its workers complete in
\* ascending index order: every save writes the whole ledger, so the file is
\* what the save of the last entry made of it.
AscendingOutcome ==
    LET last == CHOOSE i \in Entries : \A j \in Entries : j <= i
    IN  IF Entries = {} THEN PersistedLedger(start_file)
        ELSE IF last \in save_failed THEN EmptyLedger
        ELSE FullLedger

(***************************************************************************)
(* C28  Completion-order independence.  For a fixed input and a fixed set  *)
(* of failing batches, a run that has returned has persisted the manifest  *)
(* that the ascending completion order persists, and returns the loaded    *)
(* paths and the path of every batch that returned an entry, whatever the  *)
(* order in which its workers completed.                                   *)
(***************************************************************************)
C28_OrderIndependent ==
    pc = "returned" =>
        /\ PersistedLedger(manifest_file) = AscendingOutcome
        /\ Range(output_paths) =
              { loaded[i].path : i \in DOMAIN loaded } \cup { OutputFile(i) : i \in Entries }

\* The same, for the runs in which no save of the manifest raised.
C28_WithoutFailedSave ==
    save_failed = {} => C28_OrderIndependent

\* No two batches in flight have the same output file.
C29_DistinctFiles ==
    \A i, j \in InFlight : i # j => OutputFile(i) # OutputFile(j)

\* No output path stands twice in the list the run returns.
C29_NoDuplicatePaths ==
    \A m, n \in 1..Len(output_paths) : m # n => output_paths[m] # output_paths[n]

\* A run that has returned has handled every future it submitted.
C29_AllHandled ==
    pc = "returned" => handled = DOMAIN futures

\* A work item is submitted by the iteration of its own index, for an index
\* the ledger does not hold, and is never queued again.
C29_SubmittedOnce ==
    /\ \A i \in DOMAIN futures' \ DOMAIN futures :
          /\ i = next_i
          /\ next_i' = next_i + 1
          /\ futures'[i] = "queued"
          /\ i \notin DOMAIN manifest
    /\ \A i \in DOMAIN futures \cap DOMAIN futures' :
          futures[i] # "queued" => futures'[i] # "queued"

\* The completion loop takes up a future it has not handled and records an
\* index the ledger does not hold; what is handled stays handled.
C29_HandledOnce ==
    /\ (pc = "collect" /\ pc' = "saving") =>
          /\ cur' \notin handled
          /\ cur' \notin DOMAIN manifest
          /\ cur' \in DOMAIN manifest'
    /\ handled' # handled =>
          \/ handled' = {}
          \/ \E i \in DOMAIN futures \ handled : handled' = handled \cup {i}

(***************************************************************************)
(* C29  No concurrent writers on one output file.  Within a run every      *)
(* pending index is submitted once and every future is handled once; two   *)
(* batches in flight never have the same output file, no batch is recorded *)
(* twice and no output path is returned twice.                             *)
(***************************************************************************)
C29_NoConcurrentWriters ==
    /\ [](C29_DistinctFiles /\ C29_NoDuplicatePaths /\ C29_AllHandled)
    /\ [][C29_SubmittedOnce /\ C29_HandledOnce]_vars

\* Two workers are writing their output files at the same time, in a run
\* that resumed from a manifest.
C29_Witness ==
    /\ \E i, j \in DOMAIN futures :
          i # j /\ futures[i] = "writing" /\ futures[j] = "writing"
    /\ loaded # EmptyLedger

\* The empty ledger, the ledgers of one and of two of the sampled indices and
\* the ledger of all of them, each entry naming its own output file.
SampleLedgers ==
    { [ i \in K |-> ManifestEntry(<<PoolPath(1)>>, OutputFile(i)) ] :
        K \in { {}, IndexSamples } \cup { {i, j} : i, j \in IndexSamples } }

\* The members of a manifest file stand in ascending numeric order of key.
Ascending(items) ==
    \A m, n \in 1..Len(items) : m < n => IntOf(items[m].k) < IntOf(items[n].k)

\* save_manifest(m) then load_manifest gives m back.
RoundTrip(m) ==
    /\ ~LoadRaises(Saved(m))
    /\ load_manifest(Saved(m)) = m
    /\ Ascending(Saved(m).items)

\* Every sampled ledger comes back from the round trip.
SamplesRoundTrip ==
    \A m \in SampleLedgers : RoundTrip(m)

(***************************************************************************)
(* C30  Manifest round trip.  load_manifest after save_manifest(m) returns *)
(* a ledger equal to m, with the same integer keys and the same entries,   *)
(* and the saved file lists the keys in ascending numeric order: for every *)
(* sampled ledger, and for the ledger of the run whenever its save has     *)
(* completed.                                                              *)
(***************************************************************************)
C30_RoundTrip ==
    /\ SamplesRoundTrip
    /\ (manifest_file.exists /\ manifest_file.complete) =>
          /\ manifest_file = Saved(manifest)
          /\ load_manifest(manifest_file) = manifest
          /\ Ascending(manifest_file.items)

\* The run has saved a ledger of two entries.
C30_Witness ==
    /\ manifest_file.exists /\ manifest_file.complete
    /\ Cardinality(DOMAIN manifest) >= 2
    /\ Len(manifest_file.items) >= 2

=============================================================================
